---- MODULE Spec2Model ----
(***************************************************************************)
(* Model of src/src/utils/logger.ts, the structured log context builder.   *)
(* The file holds two revisions of the module:                             *)
(*   "factory"   (lines 1-164)   createLogger(), metadata attached only    *)
(*               when non-empty, allow-list plus pass-through of error     *)
(*               fields, warnings through the base logger;                 *)
(*   "singleton" (lines 165-310) logger, metadata always attached, error   *)
(*               reduced to message and stack, warnings through console.   *)
(* JavaScript values are tagged records; an exception is an explicit       *)
(* outcome of every property read, string coercion and key enumeration.    *)
(***************************************************************************)
EXTENDS Integers, Sequences, FiniteSets, TLC

VARIABLES rev, call, emitted, raised, extracted, processed, repeat, fn, input, output

vars == <<rev, call, emitted, raised, extracted, processed, repeat, fn, input, output>>

\* Largest number used as a property value (0 is the falsy number).
MaxNum == 1

Revs == {"factory", "singleton"}

---------------------------------------------------------------------------
(* JavaScript values                                                       *)

Undef == [t |-> "undefined"]
Null == [t |-> "null"]
S(s) == [t |-> "string", s |-> s]
Num(n) == [t |-> "number", n |-> n]
\* An object seen only through String(): coerce = "throw" when toString
\* raises (Object.create(null), a throwing toString), else s is the result.
Obj(s) == [t |-> "object", coerce |-> "ok", s |-> s]
Hostile == [t |-> "object", coerce |-> "throw", s |-> ""]
\* A property whose read raises (a throwing getter).
Thrower == [t |-> "getter-throws"]
\* The exception value caught by a catch clause.
Exc == [t |-> "exception"]

EmptyRec == <<>>
EmptyMap == [t |-> "map", m |-> EmptyRec]
Map(m) == [t |-> "map", m |-> m]
\* A metadata object whose key enumeration raises (Proxy with a throwing ownKeys).
KeyThrower == [t |-> "proxy"]

\* ToBoolean: undefined, null, "" and 0 are falsy, every object is truthy.
Truthy(v) ==
  CASE v.t = "undefined" -> FALSE
    [] v.t = "null" -> FALSE
    [] v.t = "string" -> v.s # ""
    [] v.t = "number" -> v.n # 0
    [] OTHER -> TRUE

Digit(d) ==
  CASE d = 0 -> "0" [] d = 1 -> "1" [] d = 2 -> "2" [] d = 3 -> "3" [] d = 4 -> "4"
    [] d = 5 -> "5" [] d = 6 -> "6" [] d = 7 -> "7" [] d = 8 -> "8" [] d = 9 -> "9"

RECURSIVE Digits(_)
Digits(n) == IF n < 10 THEN Digit(n) ELSE Digits(n \div 10) \o Digit(n % 10)

\* String(v) raises exactly when v is an object whose toString raises.
CanStr(v) == ~(v.t \in {"object", "error"} /\ v.coerce = "throw")

\* String(v), for CanStr(v).
Str(v) ==
  CASE v.t = "undefined" -> "undefined"
    [] v.t = "null" -> "null"
    [] v.t = "string" -> v.s
    [] v.t = "number" -> Digits(v.n)
    [] v.t = "object" -> v.s
    [] v.t = "error" -> v.s
    [] OTHER -> "[object Object]"

\* The characters of the strings used as primitive error values.
CharsOf(s) ==
  CASE s = "boom" -> <<"b", "o", "o", "m">>
    [] s = "x" -> <<"x">>
    [] OTHER -> <<>>

---------------------------------------------------------------------------
(* Emissions: calls made on the base logger (pino) or on console           *)

\* baseLogger.<level>(record, message)
RecordEntry(level, record, message) ==
  [sink |-> "baseLogger", level |-> level, hasRecord |-> TRUE, record |-> record, msg |-> message]

\* baseLogger.<level>(message)
TextEntry(level, message) ==
  [sink |-> "baseLogger", level |-> level, hasRecord |-> FALSE, record |-> EmptyRec, msg |-> message]

\* console.warn(message, error)
ConsoleEntry(message, error) ==
  [sink |-> "console", level |-> "warn", hasRecord |-> TRUE, record |-> [error |-> error], msg |-> message]

---------------------------------------------------------------------------
(* getRequestContext                                                       *)

\* req.<k>; a property read on a primitive yields undefined.
Field(req, k) == IF req.t = "request" THEN req[k] ELSE Undef

\* req.user?.id
UserId(req) ==
  LET u == Field(req, "user") IN
  IF u = Thrower THEN Thrower
  ELSE IF u.t = "user" THEN u.id
  ELSE Undef

\* a || b || ... over property reads, left to right with short circuit:
\* "throw" when a read raises before a truthy value is found.
RECURSIVE AnyTruthy(_)
AnyTruthy(fields) ==
  IF fields = <<>> THEN "false"
  ELSE IF Head(fields) = Thrower THEN "throw"
  ELSE IF Truthy(Head(fields)) THEN "true"
  ELSE AnyTruthy(Tail(fields))

Fail(st) == [st EXCEPT !.ok = FALSE]

\* context.<sub> = {}
NewSub(st, sub) == [st EXCEPT !.context = (sub :> EmptyRec) @@ @]

\* if (f) context.<sub>.<key> = String(f)
Assign(st, sub, key, f) ==
  IF ~st.ok THEN st
  ELSE IF f = Thrower THEN Fail(st)
  ELSE IF ~Truthy(f) THEN st
  ELSE IF ~CanStr(f) THEN Fail(st)
  ELSE [st EXCEPT !.context[sub] = (key :> S(Str(f))) @@ @]

\* The route taken from the plain URL first, the original URL second.
RouteUrlFirst(st, req) ==
  IF ~st.ok THEN st
  ELSE IF Field(req, "url") = Thrower THEN Fail(st)
  ELSE IF Truthy(Field(req, "url")) THEN Assign(st, "request", "route", Field(req, "url"))
  ELSE Assign(st, "request", "route", Field(req, "originalUrl"))

\* if (req.originalUrl) route = String(req.originalUrl); else if (req.url) route = String(req.url)
AssignRoute(st, req) ==
  IF ~st.ok THEN st
  ELSE IF Field(req, "originalUrl") = Thrower THEN Fail(st)
  ELSE IF Truthy(Field(req, "originalUrl")) THEN Assign(st, "request", "route", Field(req, "originalUrl"))
  ELSE Assign(st, "request", "route", Field(req, "url"))

\* The user block of the try body.
UserBlock(st, req) ==
  LET c == AnyTruthy(<<UserId(req), Field(req, "ip")>>) IN
  IF c = "throw" THEN Fail(st)
  ELSE IF c = "false" THEN st
  ELSE Assign(Assign(NewSub(st, "user"), "user", "id", UserId(req)), "user", "ip", Field(req, "ip"))

\* The request block of the try body.
RequestBlock(st, req) ==
  LET c == AnyTruthy(<<Field(req, "id"), Field(req, "method"), Field(req, "originalUrl"), Field(req, "url")>>) IN
  IF ~st.ok THEN st
  ELSE IF c = "throw" THEN Fail(st)
  ELSE IF c = "false" THEN st
  ELSE AssignRoute(Assign(Assign(NewSub(st, "request"), "request", "id", Field(req, "id")),
                          "request", "method", Field(req, "method")), req)

\* The catch clause: one warning, through the base logger or the console.
ExtractionWarning(rv) ==
  IF rv = "factory" THEN RecordEntry("warn", [error |-> Exc], "Failed to extract request context")
  ELSE ConsoleEntry("Failed to extract request context:", Exc)

\* Result: the context returned, the emissions made, whether the try body raised.
getRequestContext(rv, req) ==
  IF ~Truthy(req)
  THEN [context |-> EmptyRec,
        log |-> IF rv = "factory" THEN <<TextEntry("debug", "Request context not provided")>> ELSE <<>>,
        failed |-> FALSE]
  ELSE LET st == RequestBlock(UserBlock([context |-> EmptyRec, ok |-> TRUE], req), req) IN
       [context |-> st.context,
        log |-> IF st.ok THEN <<>> ELSE <<ExtractionWarning(rv)>>,
        failed |-> ~st.ok]

---------------------------------------------------------------------------
(* processError                                                            *)

\* error.<k>; a property read on a primitive yields undefined.
ErrField(error, k) == IF error.t = "error" THEN error[k] ELSE Undef

CoreKeys == {"message", "stack", "domain", "filepath", "context"}

\* Object.keys(error): the own enumerable keys, in order. A string has its
\* indices as keys; the error objects of the model carry two custom
\* properties besides the five core ones.
OwnKeys(error) ==
  IF error.t = "error"
  THEN SelectSeq(<<"message", "stack", "domain", "filepath", "context", "code", "errno">>,
                 LAMBDA k : error[k] # Undef)
  ELSE IF error.t = "string" THEN [i \in 1..Len(CharsOf(error.s)) |-> Digits(i - 1)]
  ELSE <<>>

\* error[key] for an own key.
OwnValue(error, key) ==
  IF error.t = "error" THEN error[key]
  ELSE S(CharsOf(error.s)[CHOOSE i \in 1..Len(CharsOf(error.s)) : Digits(i - 1) = key])

\* Object.keys(v) raises for null, undefined and an object whose key enumeration raises.
KeysThrow(v) == v.t = "null" \/ v.t = "undefined" \/ v.t = "proxy" \/ (v.t = "error" /\ v.keys = "throw")

\* message: error.message || String(error) || 'Unknown error', without the coercion step
MessageNoCoercion(st, error) ==
  IF ErrField(error, "message") = Thrower THEN Fail(st)
  ELSE IF Truthy(ErrField(error, "message"))
       THEN [st EXCEPT !.pe = ("message" :> ErrField(error, "message")) @@ @]
  ELSE [st EXCEPT !.pe = ("message" :> S("Unknown error")) @@ @]

\* message: error.message || String(error) || 'Unknown error'
MessageStep(st, error) ==
  IF ErrField(error, "message") = Thrower THEN Fail(st)
  ELSE IF Truthy(ErrField(error, "message"))
       THEN [st EXCEPT !.pe = ("message" :> ErrField(error, "message")) @@ @]
  ELSE IF ~CanStr(error) THEN Fail(st)
  ELSE IF Str(error) # "" THEN [st EXCEPT !.pe = ("message" :> S(Str(error))) @@ @]
  ELSE [st EXCEPT !.pe = ("message" :> S("Unknown error")) @@ @]

\* stack: error.stack || 'No stack trace available'
StackStep(st, error) ==
  IF ~st.ok THEN st
  ELSE IF ErrField(error, "stack") = Thrower THEN Fail(st)
  ELSE IF Truthy(ErrField(error, "stack"))
       THEN [st EXCEPT !.pe = ("stack" :> ErrField(error, "stack")) @@ @]
  ELSE [st EXCEPT !.pe = ("stack" :> S("No stack trace available")) @@ @]

\* if (error.<key>) processedError.<key> = String(error.<key>)
CopyString(st, error, key) ==
  IF ~st.ok THEN st
  ELSE IF ErrField(error, key) = Thrower THEN Fail(st)
  ELSE IF ~Truthy(ErrField(error, key)) THEN st
  ELSE IF ~CanStr(ErrField(error, key)) THEN Fail(st)
  ELSE [st EXCEPT !.pe = (key :> S(Str(ErrField(error, key)))) @@ @]

\* if (error.context) processedError.context = error.context
CopyContext(st, error) ==
  IF ~st.ok THEN st
  ELSE IF ErrField(error, "context") = Thrower THEN Fail(st)
  ELSE IF ~Truthy(ErrField(error, "context")) THEN st
  ELSE [st EXCEPT !.pe = ("context" :> ErrField(error, "context")) @@ @]

\* The forEach body over the keys still to visit.
RECURSIVE CopyKeys(_, _, _)
CopyKeys(st, error, keys) ==
  IF ~st.ok \/ keys = <<>> THEN st
  ELSE IF Head(keys) \in CoreKeys THEN CopyKeys(st, error, Tail(keys))
  ELSE IF OwnValue(error, Head(keys)) = Thrower THEN Fail(st)
  ELSE CopyKeys([st EXCEPT !.pe = (Head(keys) :> OwnValue(error, Head(keys))) @@ @], error, Tail(keys))

\* Object.keys(error).forEach(...)
CopyOthers(st, error) ==
  IF ~st.ok THEN st
  ELSE IF KeysThrow(error) THEN Fail(st)
  ELSE CopyKeys(st, error, OwnKeys(error))

\* The try body of each revision.
ErrorBody(rv, error) ==
  LET core == StackStep(MessageStep([pe |-> EmptyRec, ok |-> TRUE], error), error) IN
  IF rv = "singleton" THEN core
  ELSE CopyOthers(CopyContext(CopyString(CopyString(core, error, "domain"), error, "filepath"), error), error)

FallbackError == [message |-> S("Error processing failed"), stack |-> S("Unable to extract stack trace")]

\* Result: the value returned (Undef for an absent error), the emissions
\* made, whether the try body raised.
processError(rv, error) ==
  IF ~Truthy(error)
  THEN [value |-> Undef,
        log |-> IF rv = "factory" THEN <<TextEntry("debug", "Error object not provided")>> ELSE <<>>,
        failed |-> FALSE]
  ELSE LET st == ErrorBody(rv, error) IN
       IF st.ok THEN [value |-> st.pe, log |-> <<>>, failed |-> FALSE]
       ELSE [value |-> FallbackError,
             log |-> IF rv = "factory" THEN <<TextEntry("warn", "Failed to process error object")>> ELSE <<>>,
             failed |-> TRUE]

---------------------------------------------------------------------------
(* The six severity methods of each revision                               *)

\* Marks the error argument of the methods that have none.
NoArg == [t |-> "no-argument"]
NoCall == [level |-> "none"]
Pending == [t |-> "pending"]
NotRun == [value |-> Undef, log |-> <<>>, failed |-> FALSE]

\* metadata: Record<string, any> = {}  (the default replaces undefined only)
Default(metadata) == IF metadata = Undef THEN EmptyMap ELSE metadata

\* context.metadata = metadata, whatever the number of keys
AttachMetadataAlways(context, metadata) == ("metadata" :> metadata) @@ context

\* if (Object.keys(metadata).length > 0) context.metadata = metadata
AttachMetadata(context, metadata) ==
  IF DOMAIN metadata.m # {} THEN ("metadata" :> metadata) @@ context ELSE context

\* if (processedError) context.error = processedError
AttachError(context, processedError) ==
  IF processedError # Undef THEN ("error" :> processedError) @@ context ELSE context

\* A hand-off that drops a record equal to the one emitted last.
HandoffDedup(log, level, context, message) ==
  IF emitted # <<>> /\ emitted[Len(emitted)] = RecordEntry(level, context, message)
  THEN log
  ELSE Append(log, RecordEntry(level, context, message))

\* A hand-off placed ahead of the emissions of the helpers.
HandoffFirst(log, level, context, message) == <<RecordEntry(level, context, message)>> \o log

\* baseLogger.<level>(context, message)
Handoff(log, level, context, message) == Append(log, RecordEntry(level, context, message))

\* createLogger().trace / debug / info / warn
FactoryPlain(level, message, req, metadata) ==
  LET g == getRequestContext("factory", req) IN
  IF KeysThrow(Default(metadata))
  THEN [emitted |-> g.log, raised |-> TRUE, extracted |-> g, processed |-> NotRun]
  ELSE [emitted |-> Handoff(g.log, level, AttachMetadata(g.context, Default(metadata)), message),
        raised |-> FALSE, extracted |-> g, processed |-> NotRun]

\* createLogger().error / fatal
FactoryError(level, message, req, error, metadata) ==
  LET g == getRequestContext("factory", req)
      p == processError("factory", error)
  IN IF KeysThrow(Default(metadata))
     THEN [emitted |-> g.log \o p.log, raised |-> TRUE, extracted |-> g, processed |-> p]
     ELSE [emitted |-> Handoff(g.log \o p.log, level,
                               AttachMetadata(AttachError(g.context, p.value), Default(metadata)), message),
           raised |-> FALSE, extracted |-> g, processed |-> p]

\* logger.trace / debug / info / warn: { ...getRequestContext(req), metadata }
SingletonPlain(level, message, req, metadata) ==
  LET g == getRequestContext("singleton", req) IN
  [emitted |-> Handoff(g.log, level, ("metadata" :> Default(metadata)) @@ g.context, message),
   raised |-> FALSE, extracted |-> g, processed |-> NotRun]

\* logger.error / fatal: { ...getRequestContext(req), error: processError(error), metadata }
SingletonError(level, message, req, error, metadata) ==
  LET g == getRequestContext("singleton", req)
      p == processError("singleton", error)
  IN [emitted |-> Handoff(g.log \o p.log, level,
                          ("metadata" :> Default(metadata)) @@ ("error" :> p.value) @@ g.context, message),
      raised |-> FALSE, extracted |-> g, processed |-> p]

---------------------------------------------------------------------------
(* Arguments                                                               *)

Req(user, ip, id, method, originalUrl, url) ==
  [t |-> "request", user |-> user, ip |-> ip, id |-> id, method |-> method,
   originalUrl |-> originalUrl, url |-> url]

User(id) == [t |-> "user", id |-> id]

Err(message, stack, domain, filepath, context, code, errno, coerce, s, keys) ==
  [t |-> "error", message |-> message, stack |-> stack, domain |-> domain, filepath |-> filepath,
   context |-> context, code |-> code, errno |-> errno, coerce |-> coerce, s |-> s, keys |-> keys]

Nums == {Num(n) : n \in 0..MaxNum}

Messages == {"save failed", "user signed in"}

Metas == {Undef, Null, EmptyMap, Map([plan |-> S("pro")]), KeyThrower}

\* The requests the severity methods are called with.
SomeReqs ==
  {Undef, Null,
   Req(User(S("u9")), S("1.2.3.4"), S("req-1"), S("GET"), S("/login"), Undef),
   Req(Undef, S("1.2.3.4"), Undef, Undef, Undef, Undef),
   Req(Undef, Hostile, Undef, Undef, Undef, Undef),
   Req(User(S("u9")), Undef, Undef, Thrower, Undef, S("/l"))}
  \cup {Req(Undef, Undef, n, Undef, Undef, Undef) : n \in Nums}

\* The errors the error and fatal methods are called with.
SomeErrs ==
  {Undef, S("boom"), Hostile,
   Err(S("disk full"), S("at save"), Undef, Undef, Undef, Undef, Undef, "ok", "Error: disk full", "ok"),
   Err(S("disk full"), Undef, S("db"), Undef, Undef, S("E1"), Thrower, "ok", "Error: disk full", "ok")}

\* The requests getRequestContext is applied to on its own.
AllReqs ==
  {Undef, Null, S("x"), Num(0)}
  \cup {Req(user, ip, id, method, originalUrl, url) :
          user \in {Undef, Null, Thrower} \cup {User(i) : i \in {Undef, S("u9"), Hostile, Thrower} \cup Nums},
          ip \in {Undef, S("1.2.3.4"), Hostile, Thrower},
          id \in {Undef, S("req-1"), Hostile} \cup Nums,
          method \in {Undef, S("GET"), Thrower},
          originalUrl \in {Undef, S(""), S("/login"), Hostile, Thrower},
          url \in {Undef, S("/l"), Hostile, Thrower}}

\* The errors processError is applied to on its own.
AllErrs ==
  {Undef, Null, S(""), S("boom"), Hostile, Obj(""), Obj("[object Object]")} \cup Nums
  \cup {Err(message, stack, domain, filepath, context, code, errno, c[1], c[2], keys) :
          message \in {Undef, S(""), S("disk full"), Thrower} \cup Nums,
          stack \in {Undef, S("at save"), Thrower},
          domain \in {Undef, S("db"), Hostile},
          filepath \in {Undef, S("/a.ts")},
          context \in {Undef, Obj("[object Object]")},
          code \in {Undef, S("E1"), Thrower},
          errno \in {Undef, Num(1), Thrower},
          c \in {<<"ok", "[object Object]">>, <<"ok", "">>, <<"ok", "Error: disk full">>, <<"throw", "">>},
          keys \in {"ok", "throw"}}

---------------------------------------------------------------------------
(* Specification of the facade                                             *)

Init ==
  /\ rev \in Revs
  /\ call = NoCall
  /\ emitted = <<>>
  /\ raised = FALSE
  /\ extracted = NotRun
  /\ processed = NotRun
  /\ repeat = FALSE
  /\ fn = "facade"
  /\ input = Undef
  /\ output = Pending

\* One call: the arguments, what the call emitted, whether it raised.
Invoke(level, message, req, error, metadata, outcome) ==
  /\ call' = [level |-> level, message |-> message, req |-> req, error |-> error, metadata |-> metadata]
  /\ emitted' = outcome.emitted
  /\ raised' = outcome.raised
  /\ extracted' = outcome.extracted
  /\ processed' = outcome.processed
  /\ repeat' = (call' = call)
  /\ UNCHANGED <<rev, fn, input, output>>

createLogger_trace ==
  /\ rev = "factory"
  /\ \E message \in Messages, req \in SomeReqs, metadata \in Metas :
       Invoke("trace", message, req, NoArg, metadata, FactoryPlain("trace", message, req, metadata))

createLogger_debug ==
  /\ rev = "factory"
  /\ \E message \in Messages, req \in SomeReqs, metadata \in Metas :
       Invoke("debug", message, req, NoArg, metadata, FactoryPlain("debug", message, req, metadata))

createLogger_info ==
  /\ rev = "factory"
  /\ \E message \in Messages, req \in SomeReqs, metadata \in Metas :
       Invoke("info", message, req, NoArg, metadata, FactoryPlain("info", message, req, metadata))

createLogger_warn ==
  /\ rev = "factory"
  /\ \E message \in Messages, req \in SomeReqs, metadata \in Metas :
       Invoke("warn", message, req, NoArg, metadata, FactoryPlain("warn", message, req, metadata))

createLogger_error ==
  /\ rev = "factory"
  /\ \E message \in Messages, req \in SomeReqs, error \in SomeErrs, metadata \in Metas :
       Invoke("error", message, req, error, metadata, FactoryError("error", message, req, error, metadata))

createLogger_fatal ==
  /\ rev = "factory"
  /\ \E message \in Messages, req \in SomeReqs, error \in SomeErrs, metadata \in Metas :
       Invoke("fatal", message, req, error, metadata, FactoryError("fatal", message, req, error, metadata))

logger_trace ==
  /\ rev = "singleton"
  /\ \E message \in Messages, req \in SomeReqs, metadata \in Metas :
       Invoke("trace", message, req, NoArg, metadata, SingletonPlain("trace", message, req, metadata))

logger_debug ==
  /\ rev = "singleton"
  /\ \E message \in Messages, req \in SomeReqs, metadata \in Metas :
       Invoke("debug", message, req, NoArg, metadata, SingletonPlain("debug", message, req, metadata))

logger_info ==
  /\ rev = "singleton"
  /\ \E message \in Messages, req \in SomeReqs, metadata \in Metas :
       Invoke("info", message, req, NoArg, metadata, SingletonPlain("info", message, req, metadata))

logger_warn ==
  /\ rev = "singleton"
  /\ \E message \in Messages, req \in SomeReqs, metadata \in Metas :
       Invoke("warn", message, req, NoArg, metadata, SingletonPlain("warn", message, req, metadata))

logger_error ==
  /\ rev = "singleton"
  /\ \E message \in Messages, req \in SomeReqs, error \in SomeErrs, metadata \in Metas :
       Invoke("error", message, req, error, metadata, SingletonError("error", message, req, error, metadata))

logger_fatal ==
  /\ rev = "singleton"
  /\ \E message \in Messages, req \in SomeReqs, error \in SomeErrs, metadata \in Metas :
       Invoke("fatal", message, req, error, metadata, SingletonError("fatal", message, req, error, metadata))

Next ==
  \/ createLogger_trace
  \/ createLogger_debug
  \/ createLogger_info
  \/ createLogger_warn
  \/ createLogger_error
  \/ createLogger_fatal
  \/ logger_trace
  \/ logger_debug
  \/ logger_info
  \/ logger_warn
  \/ logger_error
  \/ logger_fatal

Spec == Init /\ [][Next]_vars

---------------------------------------------------------------------------
(* Specification of the two helpers applied on their own                   *)

InitPure ==
  /\ rev \in Revs
  /\ call = NoCall
  /\ emitted = <<>>
  /\ raised = FALSE
  /\ extracted = NotRun
  /\ processed = NotRun
  /\ repeat = FALSE
  /\ \/ fn = "getRequestContext" /\ input \in AllReqs
     \/ fn = "processError" /\ input \in AllErrs
  /\ output = Pending

ApplyGetRequestContext ==
  /\ fn = "getRequestContext"
  /\ output = Pending
  /\ output' = getRequestContext(rev, input)
  /\ UNCHANGED <<rev, call, emitted, raised, extracted, processed, repeat, fn, input>>

ApplyProcessError ==
  /\ fn = "processError"
  /\ output = Pending
  /\ output' = processError(rev, input)
  /\ UNCHANGED <<rev, call, emitted, raised, extracted, processed, repeat, fn, input>>

NextPure ==
  \/ ApplyGetRequestContext
  \/ ApplyProcessError

SpecPure == InitPure /\ [][NextPure]_vars

---------------------------------------------------------------------------
(* Properties                                                              *)

Called == call.level # "none"
ErrorLevel == call.level \in {"error", "fatal"}
Last == emitted[Len(emitted)]
\* The call reached its base-logger call: Last is the record it handed over.
HandedOver == Called /\ ~raised
Applied(f) == fn = f /\ output # Pending

\* The emissions of the call that hand a record and the caller's message to
\* the base logger's method of the call's own level.
HandOffs ==
  {i \in 1..Len(emitted) :
     /\ emitted[i].sink = "baseLogger"
     /\ emitted[i].hasRecord
     /\ emitted[i].level = call.level
     /\ emitted[i].msg = call.message}

Warnings == {i \in 1..Len(emitted) : emitted[i] = ExtractionWarning(rev)}

\* C1: no call to a severity method raises to its caller, whatever the
\* message, request, error and metadata arguments are.
C1_NeverRaises == raised = FALSE

\* C2 as stated: a present error without a message field gets the message
\* "Unknown error", and one without a stack field gets the stack
\* "No stack trace available".
C2_UnknownErrorWheneverNoMessage ==
  (Applied("processError") /\ Truthy(input)) =>
    /\ ErrField(input, "message") = Undef => output.value.message = S("Unknown error")
    /\ ErrField(input, "stack") = Undef => output.value.stack = S("No stack trace available")

\* C2 amended: when normalisation does not throw, a present error without a
\* message field gets its string coercion as message when that is not
\* empty and "Unknown error" when it is empty; a present error without a
\* stack field gets the stack "No stack trace available".
C2_CoercionThenUnknownError ==
  (Applied("processError") /\ Truthy(input) /\ ~output.failed) =>
    /\ ErrField(input, "message") = Undef =>
         output.value.message = IF Str(input) # "" THEN S(Str(input)) ELSE S("Unknown error")
    /\ ErrField(input, "stack") = Undef => output.value.stack = S("No stack trace available")

C2_Witness ==
  /\ Applied("processError") /\ Truthy(input) /\ ~output.failed
  /\ ErrField(input, "message") = Undef /\ ErrField(input, "stack") = Undef
  /\ Str(input) = "[object Object]"
  /\ output.value.message = S("[object Object]")
  /\ output.value.stack = S("No stack trace available")

\* C3: when normalising a present error throws, processError returns exactly
\* the two-field fallback and the error/fatal call hands the base logger a
\* record whose error is that fallback.
C3_FallbackHandedOver ==
  (Called /\ ErrorLevel /\ Truthy(call.error) /\ processed.failed) =>
    /\ processed.value = FallbackError
    /\ emitted # <<>>
    /\ Last = RecordEntry(call.level, Last.record, call.message)
    /\ "error" \in DOMAIN Last.record
    /\ Last.record.error = FallbackError

\* C4: when probing a present request throws, exactly one warning is emitted
\* (base logger in the factory revision, console in the singleton one), the
\* context built so far is returned, and the method still hands its record
\* and message to the base logger, after the warning.
C4_WarnThenHandOver ==
  (Called /\ extracted.failed) =>
    /\ Cardinality(Warnings) = 1
    /\ emitted # <<>>
    /\ Last = RecordEntry(call.level, Last.record, call.message)
    /\ \A k \in DOMAIN extracted.context :
         k \in DOMAIN Last.record /\ Last.record[k] = extracted.context[k]
    /\ \A i \in Warnings : i < Len(emitted)

\* C5: the record handed over by error/fatal has the key error iff the
\* error argument is present; an absent request gives neither user nor
\* request; the records of trace/debug/info/warn never have the key error.
C5_ErrorKeyIffPresent ==
  HandedOver =>
    /\ ErrorLevel => ("error" \in DOMAIN Last.record <=> Truthy(call.error))
    /\ ~ErrorLevel => "error" \notin DOMAIN Last.record
    /\ ~Truthy(call.req) => DOMAIN Last.record \cap {"user", "request"} = {}

\* C6: the metadata key of a handed-over record follows the revision's
\* policy (factory: present iff the argument has a key, and then equal to
\* it; singleton: always present, the argument or an empty mapping), and
\* every key context extraction produced is kept.
C6_MetadataPolicy ==
  HandedOver =>
    /\ rev = "factory" =>
         /\ "metadata" \in DOMAIN Last.record <=>
               (call.metadata.t = "map" /\ DOMAIN call.metadata.m # {})
         /\ "metadata" \in DOMAIN Last.record => Last.record.metadata = call.metadata
    /\ rev = "singleton" =>
         /\ "metadata" \in DOMAIN Last.record
         /\ Last.record.metadata = (IF call.metadata = Undef THEN EmptyMap ELSE call.metadata)
    /\ \A k \in DOMAIN extracted.context :
         k \in DOMAIN Last.record /\ Last.record[k] = extracted.context[k]

C6_Witness ==
  /\ HandedOver /\ rev = "factory"
  /\ call.metadata = Map([plan |-> S("pro")])
  /\ DOMAIN Last.record = {"user", "request", "metadata"}
  /\ Last.record.metadata = Map([plan |-> S("pro")])

\* A property read that did not raise and gave a truthy value.
Set(req, k) == Field(req, k) # Thrower /\ Truthy(Field(req, k))

\* C7: for a present request whose probing does not throw, route is the
\* string form of originalUrl when truthy, else of url when truthy, else
\* unset; id and method are set iff their fields are truthy; the request
\* key is present iff one of id, method, originalUrl, url is truthy.
C7_RoutePreference ==
  (Applied("getRequestContext") /\ Truthy(input) /\ ~output.failed) =>
    LET c == output.context
        r == c["request"]
    IN /\ "request" \in DOMAIN c <=>
            (Set(input, "id") \/ Set(input, "method") \/ Set(input, "originalUrl") \/ Set(input, "url"))
       /\ "request" \in DOMAIN c =>
            /\ "id" \in DOMAIN r <=> Set(input, "id")
            /\ "id" \in DOMAIN r => r.id = S(Str(Field(input, "id")))
            /\ "method" \in DOMAIN r <=> Set(input, "method")
            /\ "method" \in DOMAIN r => r.method = S(Str(Field(input, "method")))
            /\ "route" \in DOMAIN r <=> (Set(input, "originalUrl") \/ Set(input, "url"))
            /\ Set(input, "originalUrl") => r.route = S(Str(Field(input, "originalUrl")))
            /\ (~Set(input, "originalUrl") /\ Set(input, "url")) => r.route = S(Str(Field(input, "url")))

C7_Witness ==
  /\ Applied("getRequestContext") /\ ~output.failed
  /\ input.t = "request"
  /\ input.originalUrl = S("/login") /\ input.url = S("/l") /\ input.id = Num(1)
  /\ output.context["request"] = [id |-> S("1"), route |-> S("/login")]

\* C8: in every record handed over, user holds at least one of id / ip and
\* request at least one of id / method / route whenever they are present;
\* an address-only request gives user = {ip} and no request key.
C8_NoEmptySubObject ==
  HandedOver =>
    /\ "user" \in DOMAIN Last.record => DOMAIN Last.record.user # {}
    /\ "request" \in DOMAIN Last.record => DOMAIN Last.record.request # {}
    /\ call.req = Req(Undef, S("1.2.3.4"), Undef, Undef, Undef, Undef) =>
         DOMAIN Last.record \cap {"user", "request"} = {"user"}
         /\ Last.record.user = [ip |-> S("1.2.3.4")]
    /\ ~Truthy(call.req) => DOMAIN Last.record \cap {"user", "request"} = {}

C10_OneHandOffLast ==
  Called =>
    /\ Cardinality(HandOffs) = 1
    /\ Len(emitted) \in HandOffs
    /\ (~extracted.failed /\ ~processed.failed) => Len(emitted) = 1

\* The debug lines of the factory revision for an absent argument.
DebugLines ==
  {i \in 1..Len(emitted) :
     emitted[i] \in {TextEntry("debug", "Request context not provided"),
                     TextEntry("debug", "Error object not provided")}}

AbsentArguments ==
  (IF ~Truthy(call.req) THEN 1 ELSE 0) + (IF ErrorLevel /\ ~Truthy(call.error) THEN 1 ELSE 0)

Failures(rv) ==
  (IF extracted.failed THEN 1 ELSE 0) + (IF rv = "factory" /\ processed.failed THEN 1 ELSE 0)

\* C10 amended: a call hands its record and the caller's message to the base
\* logger's method of its own level at most once, as its last emission:
\* exactly once in the singleton revision and in a factory call whose
\* metadata keys can be enumerated, never in a factory call whose metadata
\* is null or raises on enumeration (that call raises, C1). Besides the
\* hand-off a call emits one warning per failed extraction, in the factory
\* revision one warning per failed error processing and one debug line per
\* absent request or error argument, and nothing else.
C10_HandOffLastAndHelperLines ==
  Called =>
    /\ raised <=> (rev = "factory" /\ KeysThrow(Default(call.metadata)))
    /\ Cardinality(HandOffs) = (IF raised THEN 0 ELSE 1)
    /\ ~raised => Len(emitted) \in HandOffs
    /\ Cardinality(DebugLines) = (IF rev = "factory" THEN AbsentArguments ELSE 0)
    /\ Len(emitted) = Cardinality(HandOffs) + Cardinality(DebugLines) + Failures(rev)

C10_Witness ==
  /\ HandedOver /\ rev = "factory" /\ call.level = "error"
  /\ ~Truthy(call.req) /\ ~Truthy(call.error)
  /\ Len(emitted) = 3
  /\ emitted[1] = TextEntry("debug", "Request context not provided")
  /\ emitted[2] = TextEntry("debug", "Error object not provided")
  /\ emitted[3] = RecordEntry("error", EmptyRec, call.message)

====
